---- MODULE Spec2Model ----
(***************************************************************************)
(* A model of the mio web server of src/src/main.rs: the request resolver  *)
(* (make_response), the response builder (create_msg_from_code) and the    *)
(* single-threaded event loop (WebServer::run, register_connection,        *)
(* http_handler).                                                          *)
(*                                                                         *)
(* Bytes are modelled as short strings: an ASCII byte is the one-character *)
(* string of its character, SP, CR and LF are the three control bytes the  *)
(* request pattern names, and xC3, xA9, xFF are three non-ASCII bytes.     *)
(***************************************************************************)
EXTENDS Integers, Sequences, FiniteSets, TLC

VARIABLES
    connections,         \* WebServer.connections: id -> index of the socket it owns
    next_connection_id,  \* WebServer.next_connection_id
    response,            \* the `response` buffer of run()
    events,              \* the events of the current poll batch not yet dispatched
    running,             \* TRUE while the loop of run() has not been left
    socks,               \* every socket accepted so far, in accept order
    last,                \* what the last loop step did
    fs,                  \* the file system under the document root
    cwd,                 \* the outcome of env::current_dir()
    buffer,              \* the argument of a direct call of make_response
    result               \* the value that call returned

vars == <<connections, next_connection_id, response, events, running, socks,
          last, fs, cwd, buffer, result>>

serverVars == <<connections, next_connection_id, response, events, running,
                socks, last>>

------------------------------------------------------------------------------
(* Bytes and text *)

SP == " "
CR == "<CR>"
LF == "<LF>"
xC3 == "<C3>"
xA9 == "<A9>"
xFF == "<FF>"
Eacute == "<U+00E9>"

NonAscii == {xC3, xA9, xFF}

Max(S) == CHOOSE x \in S : \A y \in S : y <= x
Min(S) == CHOOSE x \in S : \A y \in S : x <= y

Ok(v) == [ok |-> TRUE, val |-> v, err |-> ""]
Err(e) == [ok |-> FALSE, val |-> <<>>, err |-> e]

None == [some |-> FALSE, val |-> <<>>]
Some(v) == [some |-> TRUE, val |-> v]

\* std::str::from_utf8: the bytes are text iff every byte is ASCII or part of
\* a complete multi-byte sequence (here C3 A9); the text is a sequence of chars.
RECURSIVE from_utf8(_)
from_utf8(bytes) ==
    IF bytes = <<>> THEN Ok(<<>>)
    ELSE IF Head(bytes) \notin NonAscii
    THEN LET rest == from_utf8(Tail(bytes))
         IN  IF rest.ok THEN Ok(<<Head(bytes)>> \o rest.val) ELSE rest
    ELSE IF Head(bytes) = xC3 /\ Len(bytes) >= 2 /\ bytes[2] = xA9
    THEN LET rest == from_utf8(SubSeq(bytes, 3, Len(bytes)))
         IN  IF rest.ok THEN Ok(<<Eacute>> \o rest.val) ELSE rest
    ELSE Err("Utf8Error")

------------------------------------------------------------------------------
(* The request pattern of make_response: two greedy any-char groups, each   *)
(* followed by a space, then HTTP/1, one any-char, a group [0-1], CR LF and *)
(* a last greedy any-char run.                                              *)

HttpLiteral == <<SP, "H", "T", "T", "P", "/", "1">>

\* `.` matches any char but a line feed
Dot(c) == c # LF

DotStar(text, from, to) == \A k \in from..(to - 1) : Dot(text[k])

LiteralAt(text, pos, lit) ==
    /\ pos + Len(lit) - 1 <= Len(text)
    /\ \A k \in 1..Len(lit) : text[pos + k - 1] = lit[k]

\* the part of the pattern after the second group, matched at position j:
\* " HTTP/1", any char, a digit 0 or 1, CR, LF (the trailing run matches anything)
TailAt(text, j) ==
    /\ LiteralAt(text, j, HttpLiteral)
    /\ j + 10 <= Len(text)
    /\ Dot(text[j + 7])
    /\ text[j + 8] \in {"0", "1"}
    /\ text[j + 9] = CR
    /\ text[j + 10] = LF

\* a match that starts at s, whose first group is text[s..i-1], whose second
\* group is text[i+1..j-1]
MatchAt(text, s, i, j) ==
    /\ s <= i /\ i < j
    /\ TailAt(text, j)
    /\ text[i] = SP
    /\ DotStar(text, s, i)
    /\ DotStar(text, i + 1, j)

\* the positions where the part after the second group matches
Tails(text) == {j \in 1..Len(text) : TailAt(text, j)}

\* Regex::captures: the leftmost match, each greedy run as long as it can be
captures(text) ==
    LET P == 1..Len(text)
        T == Tails(text)
        Starts == {s \in P : \E j \in T : \E i \in s..(j - 1) : MatchAt(text, s, i, j)}
    IN  IF Starts = {} THEN None
        ELSE LET s == Min(Starts)
                 i == Max({x \in P : \E j \in T : MatchAt(text, s, x, j)})
                 j == Max({y \in T : MatchAt(text, s, i, y)})
             IN  Some([method  |-> SubSeq(text, s, i - 1),
                       path    |-> SubSeq(text, i + 1, j - 1),
                       version |-> <<text[j + 8]>>])

------------------------------------------------------------------------------
(* The response builder *)

Header200 == <<"H", "T", "T", "P", "/", "1", ".", "0", SP, "2", "0", "0", SP, "O", "K", CR, LF, "s", "e", "r", "v", "e", "r", ":", SP, "m", "i", "o", SP, "w", "e", "b", "s", "e", "r", "v", "e", "r", CR, LF, CR, LF>>
Response400 == <<"H", "T", "T", "P", "/", "1", ".", "0", SP, "4", "0", "0", SP, "B", "a", "d", SP, "R", "e", "q", "u", "e", "s", "t", CR, LF, "S", "e", "r", "v", "e", "r", ":", SP, "m", "i", "o", SP, "w", "e", "b", "s", "e", "r", "v", "e", "r", CR, LF, CR, LF>>
Response404 == <<"H", "T", "T", "P", "/", "1", ".", "0", SP, "4", "0", "4", SP, "N", "o", "t", SP, "F", "o", "u", "n", "d", CR, LF, "S", "e", "r", "v", "e", "r", ":", SP, "m", "i", "o", SP, "w", "e", "b", "s", "e", "r", "v", "e", "r", CR, LF, CR, LF>>
Response501 == <<"H", "T", "T", "P", "/", "1", ".", "0", SP, "5", "0", "1", SP, "N", "o", "t", SP, "I", "m", "p", "l", "e", "m", "e", "n", "t", "e", "d", CR, LF, "S", "e", "r", "v", "e", "r", ":", SP, "m", "i", "o", SP, "w", "e", "b", "s", "e", "r", "v", "e", "r", CR, LF, CR, LF>>

\* a builder that forgets the payload of a 200 response
create_msg_without_body(status_code, msg) ==
    CASE status_code = 200 -> Ok(Header200)
      [] status_code = 400 -> Ok(Response400)
      [] status_code = 404 -> Ok(Response404)
      [] status_code = 501 -> Ok(Response501)
      [] OTHER -> Err("Undefined status code.")

\* a builder that does not know status 501
create_msg_without_501(status_code, msg) ==
    CASE status_code = 200 ->
            Ok(IF msg.some THEN Header200 \o msg.val ELSE Header200)
      [] status_code = 400 -> Ok(Response400)
      [] status_code = 404 -> Ok(Response404)
      [] OTHER -> Err("Undefined status code.")

create_msg_from_code(status_code, msg) ==
    CASE status_code = 200 ->
            Ok(IF msg.some THEN Header200 \o msg.val ELSE Header200)
      [] status_code = 400 -> Ok(Response400)
      [] status_code = 404 -> Ok(Response404)
      [] status_code = 501 -> Ok(Response501)
      [] OTHER -> Err("Undefined status code.")

------------------------------------------------------------------------------
(* The file system and the request resolver *)

WEBROOT == <<"/", "w", "e", "b", "r", "o", "o", "t">>
GET == <<"G", "E", "T">>

\* what File::open and read_to_end do with a path
RegularFile(content) == [open |-> TRUE, read |-> TRUE, content |-> content]
Directory == [open |-> TRUE, read |-> FALSE, content |-> <<>>]
NoPermission == [open |-> FALSE, read |-> FALSE, content |-> <<>>]
NotFound == [open |-> FALSE, read |-> FALSE, content |-> <<>>]

Lookup(files, path) == IF path \in DOMAIN files THEN files[path] ELSE NotFound

make_response_in(bytes, files, dir) ==
    LET text == from_utf8(bytes)
    IN  IF ~text.ok THEN Err(text.err)
        ELSE LET caps == captures(text.val)
             IN  IF ~caps.some THEN create_msg_from_code(400, None)
                 ELSE IF ~dir.ok THEN Err("current_dir")
                 ELSE LET method == caps.val.method
                          path == dir.val \o WEBROOT \o caps.val.path
                          file == Lookup(files, path)
                      IN  IF method = GET
                          THEN IF ~file.open THEN create_msg_from_code(404, None)
                               ELSE IF ~file.read THEN Err("read_to_end")
                               ELSE create_msg_from_code(200, Some(file.content))
                          ELSE create_msg_from_code(501, None)

------------------------------------------------------------------------------
(* The environment: working directory, files, requests *)

Cwd == <<"/", "s">>
Cwds == {Ok(Cwd), Err("current_dir")}

PathA == <<"/", "a">>
PathB == <<"/", "b">>
PathE == <<"/", Eacute>>
PathM == <<"/", "m">>
PathP == <<"/", "p">>
PathSlash == <<"/">>
PathEmpty == <<>>

ContentA == <<"h", "i">>
ContentB == <<"y", xFF, LF>>

InRoot(path) == Cwd \o WEBROOT \o path

\* a document root with two files, an empty file, a file that may not be
\* opened, and the directories themselves
Files1 ==
    [p \in {InRoot(PathA), InRoot(PathB), InRoot(PathE), InRoot(PathP),
            InRoot(PathSlash), InRoot(PathEmpty)} |->
        CASE p = InRoot(PathA) -> RegularFile(ContentA)
          [] p = InRoot(PathB) -> RegularFile(ContentB)
          [] p = InRoot(PathE) -> RegularFile(<<>>)
          [] p = InRoot(PathP) -> NoPermission
          [] OTHER -> Directory]

\* a document root where /a is a directory and /b is the only file
Files2 ==
    [p \in {InRoot(PathA), InRoot(PathB), InRoot(PathSlash), InRoot(PathEmpty)} |->
        CASE p = InRoot(PathB) -> RegularFile(ContentA)
          [] OTHER -> Directory]

\* no document root at all
Files3 == [p \in {} |-> NotFound]

FileSystems == {Files1, Files2, Files3}

CRLF == <<CR, LF>>
Protocol == <<"H", "T", "T", "P", "/", "1", ".">>
DELETE == <<"D", "E", "L", "E", "T", "E">>

Request(method, path, version) ==
    method \o <<SP>> \o path \o <<SP>> \o Protocol \o version \o CRLF \o CRLF

GetA == Request(GET, PathA, <<"0">>)
GetB == Request(GET, PathB, <<"1">>)
GetE == Request(GET, <<"/", xC3, xA9>>, <<"0">>)
GetM == Request(GET, PathM, <<"0">>)
GetP == Request(GET, PathP, <<"1">>)
GetSlash == Request(GET, PathSlash, <<"0">>)
GetEmpty == Request(GET, PathEmpty, <<"0">>)
DeleteA == Request(DELETE, PathA, <<"0">>)
DeleteM == Request(DELETE, PathM, <<"1">>)
LowerGetA == Request(<<"g", "e", "t">>, PathA, <<"0">>)
GetTwoWords == Request(GET, <<"/", "a", SP, "b">>, <<"0">>)
GetVersion2 == Request(GET, PathA, <<"2">>)
GetNoProtocol == GET \o <<SP>> \o PathA \o CRLF
GetOnlyLF == GET \o <<SP>> \o PathA \o <<SP>> \o Protocol \o <<"0", LF>>
GetHttp2 == GET \o <<SP>> \o PathA \o <<SP, "H", "T", "T", "P", "/", "2", ".", "0">> \o CRLF
GetAnyDot == GET \o <<SP>> \o PathA \o <<SP, "H", "T", "T", "P", "/", "1", "x", "0">> \o CRLF
SecondLine == <<"x", LF>> \o GetB
BadByte == <<xFF>>
BadTail == GetA \o <<xFF>>
Truncated == GET \o <<SP, "/", xC3>>

\* the inputs of the direct calls of make_response
Inputs ==
    {GetA, GetB, GetE, GetM, GetP, GetSlash, GetEmpty, DeleteA, DeleteM,
     LowerGetA, GetTwoWords, GetVersion2, GetNoProtocol, GetOnlyLF, GetHttp2,
     GetAnyDot, SecondLine, BadByte, BadTail, Truncated, <<>>}

\* make_response is a function of the bytes, the files and the working
\* directory alone: its values on the inputs above are computed once
Tabulated ==
    [f \in FileSystems |-> [d \in Cwds |-> [b \in Inputs |->
        make_response_in(b, f, d)]]]

make_response(bytes) ==
    IF fs \in FileSystems /\ cwd \in Cwds /\ bytes \in Inputs
    THEN Tabulated[fs][cwd][bytes]
    ELSE make_response_in(bytes, fs, cwd)

------------------------------------------------------------------------------
(* Direct calls of make_response *)

InitServer ==
    /\ connections = [id \in {} |-> 0]
    /\ next_connection_id = 1
    /\ response = <<>>
    /\ events = <<>>
    /\ running = TRUE
    /\ socks = <<>>
    /\ last = [branch |-> "new", ok |-> TRUE, sent |-> <<>>]

InitResolver ==
    /\ InitServer
    /\ fs \in FileSystems
    /\ cwd \in Cwds
    /\ buffer \in Inputs
    /\ result = None

Resolve ==
    /\ ~result.some
    /\ result' = Some(make_response(buffer))
    /\ UNCHANGED <<serverVars, fs, cwd, buffer>>

NextResolver == Resolve

SpecResolver == InitResolver /\ [][NextResolver]_vars

------------------------------------------------------------------------------
(* The event loop *)

MaxSockets == 2      \* sockets accepted in one run
MaxBatch == 1        \* events in one poll batch

BUFFER_SIZE == 1024
SERVER == 0

\* what the clients send in the main specification
Requests == {GetA, GetB, DeleteA, BadByte}

\* how many bytes a failed write_all has sent before it failed
PartialLens == {0, 1}

\* the file systems of the main specification
ServedFiles == {Files1}

Event(token, readable, writable) ==
    [token |-> token, readable |-> readable, writable |-> writable]

\* what a step of the loop did: the branch it took, whether it ended without
\* an error, and the bytes it wrote to a socket
Step(branch, ok, sent) == [branch |-> branch, ok |-> ok, sent |-> sent]

\* HashMap::remove, and HashMap::insert (which replaces the value of a key)
Remove(table, id) == [k \in DOMAIN table \ {id} |-> table[k]]
Insert(table, id, v) ==
    [k \in DOMAIN table \cup {id} |-> IF k = id THEN v ELSE table[k]]

\* a counter that is not advanced
KeepId(n) == n

\* self.next_connection_id += 1
IncrementId(n) == n + 1

\* an error that is propagated out of run() with `?`
Propagate(r) == FALSE

\* run() logs the error of a step and goes on (Err(e) => error!, continue)
LogAndContinue(r) == r

\* a socket: the identifier it was registered with, its interest, the bytes
\* its last non-empty read delivered, whether a write to it has failed
NewSocket(id, registered) ==
    [id |-> id, open |-> registered, inserted |-> registered,
     interest |-> IF registered THEN "R" ELSE "-",
     req |-> <<>>, werr |-> FALSE]

\* dropping a TcpStream closes its socket
Close(ss, idx) ==
    [ss EXCEPT ![idx] = [NewSocket(@.id, FALSE) EXCEPT !.inserted = ss[idx].inserted]]

\* the events one call of poll() can report: the listener is readable, a
\* connection is ready for the interest it is registered with or reports
\* only an error or a hang-up, and an identifier whose connection is gone
Ready ==
    {Event(SERVER, TRUE, FALSE)}
    \cup {Event(id, socks[connections[id]].interest = "R",
                    socks[connections[id]].interest = "W") : id \in DOMAIN connections}
    \cup {Event(id, FALSE, FALSE) : id \in DOMAIN connections}
    \cup {Event(id, TRUE, FALSE) : id \in (1..(next_connection_id - 1)) \ DOMAIN connections}

RECURSIVE Batches(_, _)
Batches(ready, n) ==
    IF n = 0 THEN {<<>>}
    ELSE {<<>>} \cup
         UNION {{<<e>> \o b : b \in Batches({x \in ready : x.token # e.token}, n - 1)} :
                e \in ready}

Env == <<fs, cwd, buffer, result>>

\* line 53: poll.poll fails
PollErr ==
    /\ running /\ events = <<>>
    /\ last' = Step("PollErr", FALSE, <<>>)
    /\ running' = LogAndContinue(running)
    /\ UNCHANGED <<connections, next_connection_id, response, events, socks, Env>>

\* line 53: poll.poll fills the event queue
PollOk ==
    /\ running /\ events = <<>>
    /\ \E b \in Batches(Ready, MaxBatch) \ {<<>>} : events' = b
    /\ last' = Step("PollOk", TRUE, <<>>)
    /\ UNCHANGED <<connections, next_connection_id, response, running, socks, Env>>

Dispatching(token) == running /\ events # <<>> /\ Head(events).token = token

\* lines 61-66: accept fails
AcceptErr ==
    /\ Dispatching(SERVER)
    /\ events' = Tail(events)
    /\ last' = Step("AcceptErr", FALSE, <<>>)
    /\ running' = LogAndContinue(running)
    /\ UNCHANGED <<connections, next_connection_id, response, socks, Env>>

\* lines 95-96: registering the accepted stream fails; the stream is dropped
RegisterErr ==
    /\ Dispatching(SERVER)
    /\ Len(socks) < MaxSockets
    /\ events' = Tail(events)
    /\ socks' = Append(socks, NewSocket(next_connection_id, FALSE))
    /\ last' = Step("RegisterErr", FALSE, <<>>)
    /\ running' = LogAndContinue(running)
    /\ UNCHANGED <<connections, next_connection_id, response, Env>>

\* lines 95-103: register_connection succeeds
Accepted ==
    /\ Dispatching(SERVER)
    /\ Len(socks) < MaxSockets
    /\ events' = Tail(events)
    /\ LET id == next_connection_id
           replaced == id \in DOMAIN connections
           dropped == IF replaced THEN Close(socks, connections[id]) ELSE socks
       IN  /\ socks' = Append(dropped, NewSocket(id, TRUE))
           /\ connections' = Insert(connections, id, Len(socks) + 1)
           /\ last' = Step(IF replaced THEN "AlreadyExist" ELSE "Accepted", TRUE, <<>>)
    /\ next_connection_id' = IncrementId(next_connection_id)
    /\ UNCHANGED <<response, running, Env>>

\* lines 116-119: no connection has the identifier of the event
InvalidId ==
    /\ running /\ events # <<>>
    /\ Head(events).token # SERVER
    /\ Head(events).token \notin DOMAIN connections
    /\ events' = Tail(events)
    /\ last' = Step("InvalidId", FALSE, <<>>)
    /\ running' = LogAndContinue(running)
    /\ UNCHANGED <<connections, next_connection_id, response, socks, Env>>

Handling(readable, writable) ==
    /\ running /\ events # <<>>
    /\ Head(events).token # SERVER
    /\ Head(events).token \in DOMAIN connections
    /\ Head(events).readable = readable
    /\ (~readable => Head(events).writable = writable)

\* a failed read that drops the connection
ReadErrRemoves ==
    /\ running /\ events # <<>>
    /\ Head(events).token \in DOMAIN connections
    /\ Head(events).readable
    /\ events' = Tail(events)
    /\ connections' = Remove(connections, Head(events).token)
    /\ socks' = Close(socks, connections[Head(events).token])
    /\ last' = [branch |-> "ReadErr", ok |-> FALSE, sent |-> <<>>]
    /\ UNCHANGED <<next_connection_id, response, running, fs, cwd, buffer, result>>

\* line 125: the read fails
ReadErr ==
    /\ Handling(TRUE, FALSE)
    /\ events' = Tail(events)
    /\ last' = Step("ReadErr", FALSE, <<>>)
    /\ running' = LogAndContinue(running)
    /\ UNCHANGED <<connections, next_connection_id, response, socks, Env>>

\* a zero-length read that leaves the connection in the table
ReadZeroKeeps ==
    /\ running /\ events # <<>>
    /\ Head(events).token \in DOMAIN connections
    /\ Head(events).readable
    /\ events' = Tail(events)
    /\ last' = [branch |-> "ReadZero", ok |-> TRUE, sent |-> <<>>]
    /\ UNCHANGED <<connections, next_connection_id, response, running, socks,
                   fs, cwd, buffer, result>>

\* lines 125, 131-135: the read returns 0 bytes
ReadZero ==
    /\ Handling(TRUE, FALSE)
    /\ events' = Tail(events)
    /\ LET id == Head(events).token
       IN  /\ connections' = Remove(connections, id)
           /\ socks' = Close(socks, connections[id])
    /\ last' = Step("ReadZero", TRUE, <<>>)
    /\ UNCHANGED <<next_connection_id, response, running, Env>>

\* stream.read(&mut buffer): at most BUFFER_SIZE of the bytes that arrived
Received(sent) == SubSeq(sent, 1, Min({Len(sent), BUFFER_SIZE}))

\* lines 125-128: the read returns bytes and make_response fails
ResolveErr ==
    /\ Handling(TRUE, FALSE)
    /\ events' = Tail(events)
    /\ \E sent \in Requests :
         LET idx == connections[Head(events).token]
             data == Received(sent)
             made == make_response(data)
         IN  /\ ~made.ok
             /\ socks' = [socks EXCEPT ![idx].req = data]
    /\ last' = Step("ResolveErr", FALSE, <<>>)
    /\ running' = LogAndContinue(running)
    /\ UNCHANGED <<connections, next_connection_id, response, Env>>

\* lines 125-130: the response is stored and reregister fails
ReregisterErr ==
    /\ Handling(TRUE, FALSE)
    /\ events' = Tail(events)
    /\ \E sent \in Requests :
         LET idx == connections[Head(events).token]
             data == Received(sent)
             made == make_response(data)
         IN  /\ made.ok
             /\ response' = made.val
             /\ socks' = [socks EXCEPT ![idx].req = data]
    /\ last' = Step("ReregisterErr", FALSE, <<>>)
    /\ running' = LogAndContinue(running)
    /\ UNCHANGED <<connections, next_connection_id, Env>>

\* a resolution that changes the interest and stores no response
ResolvedWithoutStore ==
    /\ running /\ events # <<>>
    /\ Head(events).token \in DOMAIN connections
    /\ Head(events).readable
    /\ events' = Tail(events)
    /\ \E sent \in Requests :
         socks' = [socks EXCEPT ![connections[Head(events).token]].req = sent,
                                ![connections[Head(events).token]].interest = "W"]
    /\ last' = [branch |-> "Resolved", ok |-> TRUE, sent |-> <<>>]
    /\ UNCHANGED <<connections, next_connection_id, response, running,
                   fs, cwd, buffer, result>>

\* lines 125-130, 135: the response is stored, the interest becomes WRITABLE
Resolved ==
    /\ Handling(TRUE, FALSE)
    /\ events' = Tail(events)
    /\ \E sent \in Requests :
         LET idx == connections[Head(events).token]
             data == Received(sent)
             made == make_response(data)
         IN  /\ made.ok
             /\ response' = made.val
             /\ socks' = [socks EXCEPT ![idx].req = data, ![idx].interest = "W"]
    /\ last' = Step("Resolved", TRUE, <<>>)
    /\ UNCHANGED <<connections, next_connection_id, running, Env>>

\* line 139: write_all fails after it has sent some of the response
WriteErr ==
    /\ Handling(FALSE, TRUE)
    /\ events' = Tail(events)
    /\ LET idx == connections[Head(events).token]
       IN  /\ socks' = [socks EXCEPT ![idx].werr = TRUE]
           /\ \E k \in PartialLens :
                /\ k < Len(response)
                /\ last' = Step("WriteErr", FALSE, SubSeq(response, 1, k))
    /\ running' = LogAndContinue(running)
    /\ UNCHANGED <<connections, next_connection_id, response, Env>>

\* lines 139-141: write_all sends the whole response, the connection is removed
Written ==
    /\ Handling(FALSE, TRUE)
    /\ events' = Tail(events)
    /\ LET id == Head(events).token
       IN  /\ connections' = Remove(connections, id)
           /\ socks' = Close(socks, connections[id])
    /\ last' = Step("Written", TRUE, response)
    /\ UNCHANGED <<next_connection_id, response, running, Env>>

\* an event of no known kind that drops the connection
UndefinedEventRemoves ==
    /\ running /\ events # <<>>
    /\ Head(events).token \in DOMAIN connections
    /\ ~Head(events).readable /\ ~Head(events).writable
    /\ events' = Tail(events)
    /\ connections' = Remove(connections, Head(events).token)
    /\ socks' = Close(socks, connections[Head(events).token])
    /\ last' = [branch |-> "UndefinedEvent", ok |-> FALSE, sent |-> <<>>]
    /\ UNCHANGED <<next_connection_id, response, running, fs, cwd, buffer, result>>

\* line 143: the event is neither readable nor writable
UndefinedEvent ==
    /\ Handling(FALSE, FALSE)
    /\ events' = Tail(events)
    /\ last' = Step("UndefinedEvent", FALSE, <<>>)
    /\ running' = LogAndContinue(running)
    /\ UNCHANGED <<connections, next_connection_id, response, socks, Env>>

Init ==
    /\ InitServer
    /\ fs \in ServedFiles
    /\ cwd = Ok(Cwd)
    /\ buffer = <<>>
    /\ result = None

Next ==
    \/ PollErr
    \/ PollOk
    \/ AcceptErr
    \/ RegisterErr
    \/ Accepted
    \/ InvalidId
    \/ ReadErr
    \/ ReadZero
    \/ ResolveErr
    \/ ReregisterErr
    \/ Resolved
    \/ WriteErr
    \/ Written
    \/ UndefinedEvent

Spec == Init /\ [][Next]_vars

------------------------------------------------------------------------------
(* Properties of the request resolver, checked under SpecResolver *)

\* the request-line shape as the specification words it: a method, a space,
\* a path, a space, "HTTP/1.", a digit 0 or 1, CR LF
LiteralShape(text) ==
    \E j \in Tails(text) :
        /\ text[j + 7] = "."
        /\ \E s \in 1..Len(text) : \E i \in s..(j - 1) : MatchAt(text, s, i, j)

Decoded == from_utf8(buffer)
Parsed == captures(Decoded.val).val
Shaped == Decoded.ok /\ LiteralShape(Decoded.val)
RequestedFile == Lookup(fs, cwd.val \o WEBROOT \o Parsed.path)
Unreadable(file) == ~file.open \/ ~file.read

\* C3: a GET request of the right shape for a file that cannot be opened or
\* cannot be read to its end is answered with exactly the 404 response
C3_UnreadableFileIs404 ==
    (result.some /\ Shaped /\ Parsed.method = GET /\ cwd.ok
        /\ Unreadable(RequestedFile))
    => result.val = Ok(Response404)

\* C4: bytes that are not text are answered with exactly the 400 response
C4_UndecodableIs400 ==
    (result.some /\ ~Decoded.ok) => result.val = Ok(Response400)

\* C5: a GET request of the right shape for a readable file is answered with
\* the 200 header followed by the bytes of the file, unchanged
C5_ReadableFileIsServed ==
    (result.some /\ Shaped /\ Parsed.method = GET /\ cwd.ok
        /\ ~Unreadable(RequestedFile))
    => result.val = Ok(Header200 \o RequestedFile.content)

C5_Witness ==
    /\ result.some /\ buffer = GetB /\ fs = Files1 /\ cwd.ok
    /\ result.val = Ok(Header200 \o ContentB)

\* C6: a request of the right shape whose method is not GET is answered with
\* exactly the 501 response, whatever its path names
C6_OtherMethodIs501 ==
    (result.some /\ Shaped /\ Parsed.method # GET)
    => result.val = Ok(Response501)

\* C7: text that is not of the request-line shape is answered with exactly
\* the 400 response
C7_WrongShapeIs400 ==
    (result.some /\ Decoded.ok /\ ~LiteralShape(Decoded.val))
    => result.val = Ok(Response400)

\* the four forms of a response: the 200 header followed by a payload, and
\* the bare 400, 404 and 501 headers
FixedForm(bytes) ==
    \/ bytes \in {Response400, Response404, Response501}
    \/ Len(Header200) <= Len(bytes) /\ SubSeq(bytes, 1, Len(Header200)) = Header200

\* C19: no resolution fails with the builder's error for an unknown status,
\* and every resolution that produces a response produces one of the four
\* fixed forms
C19_StatusIsSupported ==
    result.some =>
        /\ result.val.err # "Undefined status code."
        /\ result.val.ok => FixedForm(result.val.val)

C19_Witness ==
    /\ result.some /\ buffer = DeleteM /\ cwd.ok
    /\ result.val = Ok(Response501)

------------------------------------------------------------------------------
(* Properties of the event loop, checked under Spec *)

IsPrefix(p, q) == Len(p) <= Len(q) /\ p = SubSeq(q, 1, Len(p))

Live == DOMAIN connections
SocketOf(id) == socks[connections[id]]

\* the request asks for a file that exists and can be read
AsksForFile(req) ==
    /\ from_utf8(req).ok
    /\ captures(from_utf8(req).val).some
    /\ captures(from_utf8(req).val).val.method = GET
    /\ ~Unreadable(Lookup(fs, cwd.val \o WEBROOT \o captures(from_utf8(req).val).val.path))

PathOf(req) == captures(from_utf8(req).val).val.path

\* two or more connections are live, each has sent a request for its own
\* file and waits for its writable event
DistinctFilesRequested ==
    /\ Cardinality(Live) >= 2
    /\ \A id \in Live : AsksForFile(SocketOf(id).req)
    /\ \A id \in Live : SocketOf(id).interest = "W"
    /\ \A a, b \in Live : a # b => PathOf(SocketOf(a).req) # PathOf(SocketOf(b).req)

\* C1: when several connections are live, each with a request for a distinct
\* file, a writable event sends a connection the response to its own request
C1_OwnResponseIsWritten ==
    [][(last'.branch \in {"Written", "WriteErr"} /\ DistinctFilesRequested)
        => IsPrefix(last'.sent, make_response(SocketOf(Head(events).token).req).val)]_vars

\* a request that is malformed or unsupported: not text, not of the
\* request-line shape, not a GET, or a GET for a file that cannot be read
Malformed(req) ==
    \/ ~from_utf8(req).ok
    \/ ~LiteralShape(from_utf8(req).val)
    \/ ~AsksForFile(req)

ErrorResponses == {Response400, Response404, Response501}

\* C2: a connection that has delivered a malformed or unsupported request and
\* has seen no write error is removed only by the step that writes it a
\* complete 400, 404 or 501 response
C2_MalformedIsAnswered ==
    [][\A id \in Live \ DOMAIN connections' :
          (SocketOf(id).req # <<>> /\ Malformed(SocketOf(id).req)
              /\ ~SocketOf(id).werr)
          => last'.sent \in ErrorResponses]_vars

\* C8: a read of zero bytes removes the connection and nothing else: no byte
\* is written, the response buffer and the counter stay, the handler returns
\* Ok and the loop goes on with the rest of the batch
C8_ZeroReadRemoves ==
    [][last'.branch = "ReadZero" =>
          /\ Head(events).token \in Live
          /\ DOMAIN connections' = Live \ {Head(events).token}
          /\ \A id \in DOMAIN connections' : connections'[id] = connections[id]
          /\ ~socks'[connections[Head(events).token]].open
          /\ last'.sent = <<>>
          /\ response' = response
          /\ next_connection_id' = next_connection_id
          /\ last'.ok
          /\ running'
          /\ events' = Tail(events)]_vars

C8_Witness ==
    /\ last.branch = "ReadZero"
    /\ response # <<>>
    /\ Live # {}
    /\ \E i \in 1..Len(socks) : socks[i].inserted /\ ~socks[i].open

Inserted == {i \in 1..Len(socks) : socks[i].inserted}

\* C9: the keys of the table are positive and below the counter, 0 is no
\* key, the identifiers given to accepted connections grow from 1, and no
\* insert finds its key in the table
C9_IdentifiersAreFresh ==
    /\ \A id \in Live : id \in Nat /\ 0 < id /\ id < next_connection_id
    /\ SERVER \notin Live
    /\ \A i \in Inserted : \A j \in Inserted : i < j => socks[i].id < socks[j].id
    /\ Inserted # {} => socks[Min(Inserted)].id = 1
    /\ \A a, b \in Live : a # b => connections[a] # connections[b]
    /\ last.branch # "AlreadyExist"

C9_Witness ==
    /\ Live = {1, 2}
    /\ next_connection_id = 3
    /\ last.branch = "Accepted"

\* C10: after a step that failed the loop is still running and has a next
\* step: the next event of the batch or the next wait
C10_FailureDoesNotStopLoop ==
    /\ running
    /\ ~last.ok => ENABLED Next

C10_Witness ==
    /\ ~last.ok
    /\ last.branch = "ResolveErr"
    /\ Live # {}
    /\ running

\* the event a step has taken from the queue, and the socket it was for
Handled == Head(events).token
HandledSocket == connections[Handled]

\* C12: a step that handles a writable event of a live connection ends with
\* the connection out of the table and its socket closed, whether the whole
\* response was written or the write failed
C12_WritableEventRemoves ==
    [][last'.branch \in {"Written", "WriteErr"} =>
          /\ Handled \in Live
          /\ Handled \notin DOMAIN connections'
          /\ ~socks'[HandledSocket].open]_vars

\* C13: a step in which the registration of an accepted socket fails
\* reports the failure and advances the counter by one, so no two accepted
\* sockets are given the same identifier
C13_FailedRegistrationAdvances ==
    [][last'.branch = "RegisterErr" =>
          /\ ~last'.ok
          /\ next_connection_id' = next_connection_id + 1
          /\ \A i, j \in 1..Len(socks') : i # j => socks'[i].id # socks'[j].id]_vars

\* C14: a read that fails is reported as a failure and changes nothing: the
\* connection keeps its entry and its read interest, the response buffer
\* and the counter stay, nothing is written, and poll can report the
\* connection readable again
C14_ReadErrorKeepsConnection ==
    [][last'.branch = "ReadErr" =>
          /\ ~last'.ok
          /\ Handled \in Live
          /\ connections' = connections
          /\ socks' = socks
          /\ socks'[HandledSocket].open
          /\ socks'[HandledSocket].interest = "R"
          /\ response' = response
          /\ next_connection_id' = next_connection_id
          /\ last'.sent = <<>>
          /\ running'
          /\ Event(Handled, TRUE, FALSE) \in Ready']_vars

C14_Witness ==
    /\ last.branch = "ReadErr"
    /\ response # <<>>
    /\ \E id \in Live : SocketOf(id).interest = "R" /\ SocketOf(id).req # <<>>

\* the live connections that are registered for write interest
AwaitingWrite == {id \in Live : SocketOf(id).interest = "W"}

\* C15: at most one response is in flight: at most one live connection is
\* registered for write interest and not yet written and removed
C15_OneResponseInFlight == Cardinality(AwaitingWrite) <= 1

\* the sockets that are entries of the table
Owned == {connections[id] : id \in Live}

\* C16: an accepted socket that is open is an entry of the table, and a
\* closed one has been an entry: none is closed without having been inserted
C16_TableOwnsSockets ==
    \A i \in 1..Len(socks) :
        /\ socks[i].open => i \in Owned
        /\ ~socks[i].open => socks[i].inserted

\* the steps in which a non-empty read is resolved into a response
Resolving == {"Resolved", "ReregisterErr"}

\* C17: a live connection has exactly one interest: read from its accept,
\* write from the step in which its non-empty read is resolved into a
\* response; the interest changes in no other step and never back, and
\* bytes are written only to a connection that has delivered a non-empty read
C17_InterestFollowsResolution ==
    [][/\ \A id \in DOMAIN connections' :
             socks'[connections'[id]].interest \in {"R", "W"}
       /\ \A id \in DOMAIN connections' \ Live :
             socks'[connections'[id]].interest = "R"
       /\ last'.branch \in Resolving =>
             /\ socks'[HandledSocket].req # <<>>
             /\ socks'[HandledSocket].interest = "W"
       /\ \A id \in Live \cap DOMAIN connections' :
             socks'[connections'[id]].interest # SocketOf(id).interest =>
                /\ last'.branch \in Resolving
                /\ id = Handled
                /\ SocketOf(id).interest = "R"
       /\ last'.branch \in {"Written", "WriteErr"} =>
             /\ SocketOf(Handled).interest = "W"
             /\ SocketOf(Handled).req # <<>>]_vars

\* C18: an event whose identifier is no key of the table, and an event of a
\* live connection that is neither readable nor writable, are reported as
\* failures and change nothing: the table, every socket and its interest,
\* the response buffer and the counter stay, nothing is read or written
C18_UnknownEventChangesNothing ==
    [][last'.branch \in {"InvalidId", "UndefinedEvent"} =>
          /\ last'.branch = "InvalidId" <=> Handled \notin Live
          /\ last'.branch = "UndefinedEvent" =>
                ~Head(events).readable /\ ~Head(events).writable
          /\ ~last'.ok
          /\ connections' = connections
          /\ socks' = socks
          /\ response' = response
          /\ next_connection_id' = next_connection_id
          /\ last'.sent = <<>>
          /\ running'
          /\ events' = Tail(events)]_vars

C18_Witness ==
    /\ last.branch = "UndefinedEvent"
    /\ response # <<>>
    /\ AwaitingWrite # {}
    /\ \E i \in 1..Len(socks) : socks[i].inserted /\ ~socks[i].open

\* the responses the resolver builds from the requests clients send
Built == {make_response(Received(sent)).val :
             sent \in {r \in Requests : make_response(Received(r)).ok}}

\* C20: while a live connection is registered for write interest the
\* response buffer is not empty and holds one whole response the resolver
\* has built, so a write that completes sends a whole well-formed response
C20_BufferHoldsBuiltResponse ==
    /\ AwaitingWrite # {} =>
          /\ response # <<>>
          /\ response \in Built
          /\ FixedForm(response)
    /\ last.branch = "Written" =>
          /\ last.sent \in Built
          /\ FixedForm(last.sent)
    /\ last.branch = "WriteErr" =>
          \E whole \in Built : IsPrefix(last.sent, whole)

C20_Witness ==
    /\ last.branch = "Written"
    /\ last.sent = Header200 \o ContentA
    /\ AwaitingWrite # {}
    /\ response = last.sent

====
